---- MODULE Spec2Model ----
(***************************************************************************)
(* KnowledgeLayerDashboard (frontend/src/app/components): a dashboard      *)
(* session that registers two response callbacks on a namespace/action     *)
(* keyed message channel, sends get_routes / query_knowledge requests,     *)
(* keeps the latest responses in local state, and turns the route metadata *)
(* into a DOT graph that is copied to the clipboard.                       *)
(*                                                                         *)
(* Text typed by the user is a sequence of characters, so that trimming is *)
(* computed; route patterns, relationships and the DOT text are strings    *)
(* joined with \o, as the template literals of the source join them.       *)
(***************************************************************************)
EXTENDS Integers, Sequences, FiniteSets, TLC

\* ---------------------------------------------------------------- bounds
MaxText    == 2   \* longest query text the user types
MaxMounts  == 2   \* dashboard instances created over the page's life
MaxWrites  == 1   \* asynchronous clipboard writes not yet settled
MaxRoutes  == 2   \* routes of a RouteSet (graph specification)
MaxRelated == 2   \* related entries of one route (graph specification)

\* ------------------------------------------------------------ vocabulary
Sessions  == {1, 2}
Namespace == "knowledge_layer"
Keys      == {"get_routes", "query_knowledge"}

Whitespace == {" "}
Chars      == {" ", "a"}

SeqsUpTo(S, n) == UNION {[1..k -> S] : k \in 0..n}

Texts == SeqsUpTo(Chars, MaxText)

\* useState(null): no RouteSet received yet
Null == [null |-> TRUE]

TopPatterns    == {"/a", "/b"}
RelatedEntries ==
  { [pattern |-> "/b", relationship |-> "depends_on"],
    [pattern |-> "/c", relationship |-> "uses"] }

RouteSetsOf(nRoutes, nRelated) ==
  { [explainer_routes |-> rs] :
      rs \in SeqsUpTo([pattern : TopPatterns,
                       related : SeqsUpTo(RelatedEntries, nRelated)], nRoutes) }

RouteSets == RouteSetsOf(MaxRoutes, MaxRelated)

EmptyRouteSet   == [explainer_routes |-> <<>>]
ExampleRouteSet ==
  [explainer_routes |->
     << [pattern |-> "/a",
         related |-> << [pattern |-> "/b", relationship |-> "depends_on"] >>] >>]

\* the get_routes responses the remote registry answers with on the channel
ChannelRouteSets == {EmptyRouteSet, ExampleRouteSet}
\* the query_knowledge responses: opaque strings
QueryResponses   == {"cqi=9", "cqi=12"}

ResponsesFor(k) == IF k = "get_routes" THEN ChannelRouteSets ELSE QueryResponses

\* ----------------------------------------------------------------- state
VARIABLES
  props,                  \* the collaborators the page supplies (TRUE = supplied)
  navigatorClipboard,     \* whether navigator.clipboard exists in this browser
  phase,                  \* per session: "idle", "active" (mounted), "ended"
  inst,                   \* per session: the number of its current instance
  mounts,                 \* instances created so far
  knowledgeQueryInput,    \* per session: useState("")
  knowledgeLayerRoutes,   \* per session: useState(null)
  knowledgeQueryResponse, \* per session: useState("")
  handlers,               \* the adapter: key -> callbacks (instance numbers)
  outbox,                 \* messages the last step handed to sendMessage
  console,                \* what the last step wrote to the console
  inbound,                \* the key of the inbound message the last step dispatched
  fired,                  \* callbacks the last step's inbound message invoked
  lastRegistered,         \* per key: the callback registered last (0 = none)
  received,               \* per session and key: the payload its callback got last
  produced,               \* the graph the last step built (NoGraph = none)
  clipboard,              \* the system clipboard's text
  pendingWrites,          \* navigator.clipboard.writeText promises not settled
  bodyChildren            \* transient textareas attached to document.body

vars ==
  << props, navigatorClipboard, phase, inst, mounts, knowledgeQueryInput,
     knowledgeLayerRoutes, knowledgeQueryResponse, handlers, outbox,
     console, inbound, fired, lastRegistered, received, produced, clipboard,
     pendingWrites, bodyChildren >>

NoGraph    == [none |-> TRUE]
\* whatever the clipboard held before the page was opened
NoText     == "(earlier clipboard text)"
\* received[s][k] is << >> or << the payload >>
NoResponse == << >>
NoMessage  == [silent |-> TRUE]

Error(msg) == [level |-> "error", msg |-> msg]
Log(msg)   == [level |-> "log", msg |-> msg]

\* ------------------------------------------------------------- functions
RECURSIVE TrimStart(_)
TrimStart(t) ==
  IF t # <<>> /\ Head(t) \in Whitespace THEN TrimStart(Tail(t)) ELSE t

RECURSIVE TrimEnd(_)
TrimEnd(t) ==
  IF t # <<>> /\ t[Len(t)] \in Whitespace
  THEN TrimEnd(SubSeq(t, 1, Len(t) - 1))
  ELSE t

\* (mutation of Trim: only the leading whitespace is removed)
TrimLeadingOnly(t) == TrimStart(t)

\* String.prototype.trim
Trim(t) == TrimEnd(TrimStart(t))

\* ------------------------------------------------- the channel adapter
\* (mutation of RegisterMessageHandler: callbacks stack instead of replacing)
RegisterStacking(h, k, cb) == [h EXCEPT ![k] = @ \cup {cb}]

RegisterMessageHandler(h, k, cb) == [h EXCEPT ![k] = {cb}]

DeregisterMessageHandler(h, k) == [h EXCEPT ![k] = {}]

Message(action, args) == [namespace |-> Namespace, action |-> action, args |-> args]

\* ------------------------------------------------------------------ Init
InitialState ==
  /\ knowledgeQueryInput = [s \in Sessions |-> <<>>]
  /\ knowledgeLayerRoutes = [s \in Sessions |-> Null]
  /\ knowledgeQueryResponse = [s \in Sessions |-> ""]

Init ==
  /\ props \in [sendMessage : BOOLEAN, registerMessageHandler : BOOLEAN,
                deregisterMessageHandler : BOOLEAN]
  /\ navigatorClipboard \in BOOLEAN
  /\ phase = [s \in Sessions |-> "idle"]
  /\ inst = [s \in Sessions |-> 0]
  /\ mounts = 0
  /\ InitialState
  /\ handlers = [k \in Keys |-> {}]
  /\ outbox = <<>>
  /\ console = <<>>
  /\ inbound = NoMessage
  /\ fired = {}
  /\ lastRegistered = [k \in Keys |-> 0]
  /\ received = [s \in Sessions |-> [k \in Keys |-> NoResponse]]
  /\ produced = NoGraph
  /\ clipboard = NoText
  /\ pendingWrites = <<>>
  /\ bodyChildren = 0

\* what every step leaves of the previous step's outputs: nothing
Quiet == /\ outbox' = <<>>
         /\ inbound' = NoMessage
         /\ fired' = {}
         /\ produced' = NoGraph

BrowserUnchanged == UNCHANGED <<navigatorClipboard, clipboard, pendingWrites, bodyChildren>>

\* --------------------------------------------------------------- actions
\* mount: the two useState initialisers, then both effects
\* (mutation of RegisteredBoth: the second registration is forgotten)
RegisteredRoutesOnly(h, cb) == RegisterMessageHandler(h, "get_routes", cb)

RegisteredBoth(h, cb) ==
  RegisterMessageHandler(RegisterMessageHandler(h, "get_routes", cb),
                         "query_knowledge", cb)

Start(s) ==
  /\ phase[s] \in {"idle", "ended"}
  /\ mounts < MaxMounts
  /\ mounts' = mounts + 1
  /\ inst' = [inst EXCEPT ![s] = mounts + 1]
  /\ phase' = [phase EXCEPT ![s] = "active"]
  /\ knowledgeQueryInput' = [knowledgeQueryInput EXCEPT ![s] = <<>>]
  /\ knowledgeLayerRoutes' = [knowledgeLayerRoutes EXCEPT ![s] = Null]
  /\ knowledgeQueryResponse' = [knowledgeQueryResponse EXCEPT ![s] = ""]
  /\ received' = [received EXCEPT ![s] = [k \in Keys |-> NoResponse]]
  /\ IF props.registerMessageHandler
     THEN /\ handlers' = RegisteredBoth(handlers, mounts + 1)
          /\ lastRegistered' = [k \in Keys |-> mounts + 1]
          /\ console' = << Log("Knowledge Query Response Updated:") >>
     ELSE /\ UNCHANGED <<handlers, lastRegistered>>
          /\ console' = << Error("registerMessageHandler is not provided"),
                           Log("Knowledge Query Response Updated:") >>
  /\ Quiet
  /\ UNCHANGED props
  /\ BrowserUnchanged

\* (mutation of Cleanup: the second deregistration is forgotten)
CleanupRoutesOnly(h) == DeregisterMessageHandler(h, "get_routes")

\* the cleanup the first effect returned (it returned none without
\* registerMessageHandler)
Cleanup(h) ==
  DeregisterMessageHandler(DeregisterMessageHandler(h, "get_routes"),
                           "query_knowledge")

End(s) ==
  /\ phase[s] = "active"
  /\ phase' = [phase EXCEPT ![s] = "ended"]
  /\ IF ~props.registerMessageHandler
     THEN /\ UNCHANGED handlers
          /\ console' = <<>>
     ELSE IF props.deregisterMessageHandler
     THEN /\ handlers' = Cleanup(handlers)
          /\ console' = <<>>
     ELSE /\ UNCHANGED handlers
          /\ console' = << Error("deregisterMessageHandler is not provided") >>
  /\ Quiet
  /\ UNCHANGED <<props, inst, mounts, knowledgeQueryInput, knowledgeLayerRoutes,
                 knowledgeQueryResponse, lastRegistered, received>>
  /\ BrowserUnchanged

\* onChange of the input: setKnowledgeQueryInput(e.target.value)
SetKnowledgeQueryInput(s, t) ==
  /\ phase[s] = "active"
  /\ knowledgeQueryInput' = [knowledgeQueryInput EXCEPT ![s] = t]
  /\ console' = <<>>
  /\ Quiet
  /\ UNCHANGED <<props, phase, inst, mounts, knowledgeLayerRoutes,
                 knowledgeQueryResponse, handlers, lastRegistered,
                 received>>
  /\ BrowserUnchanged

\* sendMessage(namespace, action, ...args): fire-and-forget
Sent(action, args) == outbox' = << Message(action, args) >>

NothingSent == outbox' = <<>>

\* (mutation of GetKnowledgeRoutes: sendMessage is called without the test
\* that it was supplied)
GetKnowledgeRoutesUnguarded(s) ==
  /\ phase[s] = "active"
  /\ console' = <<>>
  /\ Sent("get_routes", <<>>)
  /\ inbound' = NoMessage
  /\ fired' = {}
  /\ produced' = NoGraph
  /\ UNCHANGED <<props, phase, inst, mounts, knowledgeQueryInput,
                 knowledgeLayerRoutes, knowledgeQueryResponse, handlers,
                 lastRegistered, received>>
  /\ BrowserUnchanged

\* (mutation of GetKnowledgeRoutes: the routes shown are cleared while the
\* new ones are awaited)
GetKnowledgeRoutesClearing(s) ==
  /\ phase[s] = "active"
  /\ IF ~props.sendMessage
     THEN /\ console' = << Error("websocket is not connected") >>
          /\ NothingSent
          /\ UNCHANGED knowledgeLayerRoutes
     ELSE /\ console' = <<>>
          /\ Sent("get_routes", <<>>)
          /\ knowledgeLayerRoutes' = [knowledgeLayerRoutes EXCEPT ![s] = Null]
  /\ inbound' = NoMessage
  /\ fired' = {}
  /\ produced' = NoGraph
  /\ UNCHANGED <<props, phase, inst, mounts, knowledgeQueryInput,
                 knowledgeQueryResponse, handlers, lastRegistered, received>>
  /\ BrowserUnchanged

GetKnowledgeRoutes(s) ==
  /\ phase[s] = "active"
  /\ IF ~props.sendMessage
     THEN /\ console' = << Error("websocket is not connected") >>
          /\ NothingSent
     ELSE /\ console' = <<>>
          /\ Sent("get_routes", <<>>)
  /\ inbound' = NoMessage
  /\ fired' = {}
  /\ produced' = NoGraph
  /\ UNCHANGED <<props, phase, inst, mounts, knowledgeQueryInput,
                 knowledgeLayerRoutes, knowledgeQueryResponse, handlers,
                 lastRegistered, received>>
  /\ BrowserUnchanged

\* (mutation of EmptyInput: the text is not trimmed before the test)
EmptyInputUntrimmed(t) == t = <<>>

\* !knowledgeQueryInput.trim()
EmptyInput(t) == Trim(t) = <<>>

QueryKnowledge(s) ==
  /\ phase[s] = "active"
  /\ IF ~props.sendMessage
     THEN /\ console' = << Error("WebSocket is not connected") >>
          /\ NothingSent
     ELSE IF EmptyInput(knowledgeQueryInput[s])
     THEN /\ console' = << Error("Knowledge query input is empty") >>
          /\ NothingSent
     ELSE /\ console' = <<>>
          /\ Sent("query_knowledge", << Trim(knowledgeQueryInput[s]) >>)
  /\ inbound' = NoMessage
  /\ fired' = {}
  /\ produced' = NoGraph
  /\ UNCHANGED <<props, phase, inst, mounts, knowledgeQueryInput,
                 knowledgeLayerRoutes, knowledgeQueryResponse, handlers,
                 lastRegistered, received>>
  /\ BrowserUnchanged

\* the two callbacks: setKnowledgeLayerRoutes(response) and
\* setKnowledgeQueryResponse(response); prev is the state they overwrite
\* (mutation of OnGetRoutes: the new routes are merged into the old ones)
OnGetRoutesMerging(prev, response) ==
  IF prev = Null THEN response
  ELSE [explainer_routes |-> prev.explainer_routes \o response.explainer_routes]

\* (mutation of OnGetRoutes: a response without routes is stored as absent)
OnGetRoutesDroppingEmpty(prev, response) ==
  IF response.explainer_routes = <<>> THEN Null ELSE response

OnGetRoutes(prev, response) == response

OnQueryKnowledge(prev, response) == response

\* the adapter's dispatch of an inbound message: the callbacks under its key
CallbacksFor(h, k) == h[k]

\* an inbound message for key k arrives on the channel. It carries no
\* correlation id, so the session cannot tell which request, if any, it
\* answers: the channel may deliver one at any time. A callback of an
\* instance that is no longer mounted still runs (and logs), but React
\* ignores its state update.
Deliver(k, r) ==
  /\ inbound' = [key |-> k]
  /\ fired' = CallbacksFor(handlers, k)
  /\ LET live(s) == phase[s] = "active" /\ inst[s] \in CallbacksFor(handlers, k)
         newResponse(s) ==
           IF k = "query_knowledge" /\ live(s)
           THEN OnQueryKnowledge(knowledgeQueryResponse[s], r)
           ELSE knowledgeQueryResponse[s]
     IN  /\ knowledgeLayerRoutes' =
              [s \in Sessions |->
                 IF k = "get_routes" /\ live(s)
                 THEN OnGetRoutes(knowledgeLayerRoutes[s], r)
                 ELSE knowledgeLayerRoutes[s]]
         /\ knowledgeQueryResponse' = [s \in Sessions |-> newResponse(s)]
         /\ received' =
              [s \in Sessions |->
                 IF live(s) THEN [received[s] EXCEPT ![k] = << r >>] ELSE received[s]]
         /\ console' =
              IF CallbacksFor(handlers, k) = {} THEN <<>>
              ELSE IF k = "get_routes"
              THEN << Log("Received knowledge layer routes:") >>
              ELSE IF \E s \in Sessions : newResponse(s) # knowledgeQueryResponse[s]
              THEN << Log("Received knowledge query response:"),
                      Log("Knowledge Query Response Updated:") >>
              ELSE << Log("Received knowledge query response:") >>
  /\ outbox' = <<>>
  /\ produced' = NoGraph
  /\ UNCHANGED <<props, phase, inst, mounts, knowledgeQueryInput, handlers,
                 lastRegistered>>
  /\ BrowserUnchanged

\* ---------------------------------------------------- the route graph
\* (mutation of PushRelated: the related entries are walked last to first)
RECURSIVE PushRelatedBackwards(_, _, _)
PushRelatedBackwards(edges, pattern, related) ==
  IF related = <<>> THEN edges
  ELSE PushRelatedBackwards(
         Append(edges, [source |-> pattern,
                        target |-> related[Len(related)].pattern,
                        label  |-> related[Len(related)].relationship]),
         pattern, SubSeq(related, 1, Len(related) - 1))

\* explainerRoute.related.forEach: one edge pushed per related entry
RECURSIVE PushRelated(_, _, _)
PushRelated(edges, pattern, related) ==
  IF related = <<>> THEN edges
  ELSE PushRelated(Append(edges, [source |-> pattern,
                                  target |-> Head(related).pattern,
                                  label  |-> Head(related).relationship]),
                   pattern, Tail(related))

\* (mutation of BuildGraph: a pattern already among the nodes is not pushed again)
RECURSIVE BuildGraphDeduplicating(_, _, _)
BuildGraphDeduplicating(routes, nodes, edges) ==
  IF routes = <<>> THEN [nodes |-> nodes, edges |-> edges]
  ELSE BuildGraphDeduplicating(
         Tail(routes),
         IF \E i \in 1..Len(nodes) : nodes[i] = Head(routes).pattern
         THEN nodes ELSE Append(nodes, Head(routes).pattern),
         PushRelated(edges, Head(routes).pattern, Head(routes).related))

\* explainer_routes.forEach: the route's pattern pushed as a node, then its edges
RECURSIVE BuildGraph(_, _, _)
BuildGraph(routes, nodes, edges) ==
  IF routes = <<>> THEN [nodes |-> nodes, edges |-> edges]
  ELSE BuildGraph(Tail(routes),
                  Append(nodes, Head(routes).pattern),
                  PushRelated(edges, Head(routes).pattern, Head(routes).related))

GraphOf(routeSet) == BuildGraph(routeSet.explainer_routes, <<>>, <<>>)

NodeLine(node) == "  \"" \o node \o "\";\n"

EdgeLine(edge) ==
  "  \"" \o edge.source \o "\" -> \"" \o edge.target
         \o "\" [label=\"" \o edge.label \o "\"];\n"

RECURSIVE AddNodes(_, _)
AddNodes(dot, nodes) ==
  IF nodes = <<>> THEN dot
  ELSE AddNodes(dot \o NodeLine(Head(nodes)), Tail(nodes))

RECURSIVE AddEdges(_, _)
AddEdges(dot, edges) ==
  IF edges = <<>> THEN dot
  ELSE AddEdges(dot \o EdgeLine(Head(edges)), Tail(edges))

\* (mutation of DotOf: the edge lines are written before the node lines)
DotOfEdgesFirst(graph) ==
  AddNodes(AddEdges("digraph KnowledgeRoutes {\n", graph.edges), graph.nodes)
    \o "}\n"

DotOf(graph) ==
  AddEdges(AddNodes("digraph KnowledgeRoutes {\n", graph.nodes), graph.edges)
    \o "}\n"

\* document.execCommand("copy"): it copies and returns true, returns false
\* without copying, or throws
CopyOutcomes == {"copied", "refused", "throws"}

\* (mutation of Export: the copy command runs outside a try block, so that
\* its exception leaves the handler, which the browser reports as uncaught,
\* and the statements after it are skipped)
ExportUncaught(s, routeSet) ==
  LET graph == GraphOf(routeSet)
      dot   == DotOf(graph)
      logs  == << Log("Explainer Graph Nodes:"), Log("Explainer Graph Edges:") >>
  IN  /\ produced' = [session |-> s, nodes |-> graph.nodes,
                      edges |-> graph.edges, dot |-> dot]
      /\ IF navigatorClipboard
         THEN /\ Len(pendingWrites) < MaxWrites
              /\ pendingWrites' = Append(pendingWrites, dot)
              /\ console' = logs
              /\ UNCHANGED <<clipboard, bodyChildren>>
         ELSE \E outcome \in CopyOutcomes :
                LET attached == bodyChildren + 1
                IN  /\ clipboard' = IF outcome = "copied" THEN dot ELSE clipboard
                    /\ console' =
                         IF outcome = "throws"
                         THEN Append(logs, [level |-> "uncaught",
                                            msg |-> "Uncaught exception"])
                         ELSE Append(logs, Log("DOT graph copied to clipboard!"))
                    /\ bodyChildren' =
                         IF outcome = "throws" THEN attached ELSE attached - 1
                    /\ UNCHANGED pendingWrites

\* (mutation of Export: the textarea is removed inside the try block, after
\* the copy command, so that a throwing copy command skips the removal)
ExportRemovingInsideTry(s, routeSet) ==
  LET graph == GraphOf(routeSet)
      dot   == DotOf(graph)
      logs  == << Log("Explainer Graph Nodes:"), Log("Explainer Graph Edges:") >>
  IN  /\ produced' = [session |-> s, nodes |-> graph.nodes,
                      edges |-> graph.edges, dot |-> dot]
      /\ IF navigatorClipboard
         THEN /\ Len(pendingWrites) < MaxWrites
              /\ pendingWrites' = Append(pendingWrites, dot)
              /\ console' = logs
              /\ UNCHANGED <<clipboard, bodyChildren>>
         ELSE \E outcome \in CopyOutcomes :
                LET attached == bodyChildren + 1
                IN  /\ clipboard' = IF outcome = "copied" THEN dot ELSE clipboard
                    /\ console' =
                         IF outcome = "throws"
                         THEN Append(logs, Error("Failed to copy DOT graph:"))
                         ELSE Append(logs, Log("DOT graph copied to clipboard!"))
                    /\ bodyChildren' =
                         IF outcome = "throws" THEN attached ELSE attached - 1
                    /\ UNCHANGED pendingWrites

\* the body of generateRouteDotGraph after its guard: the graph, its DOT text,
\* and the copy to the clipboard
Export(s, routeSet) ==
  LET graph == GraphOf(routeSet)
      dot   == DotOf(graph)
      logs  == << Log("Explainer Graph Nodes:"), Log("Explainer Graph Edges:") >>
  IN  /\ produced' = [session |-> s, nodes |-> graph.nodes,
                      edges |-> graph.edges, dot |-> dot]
      /\ IF navigatorClipboard
         THEN /\ Len(pendingWrites) < MaxWrites
              /\ pendingWrites' = Append(pendingWrites, dot)
              /\ console' = logs
              /\ UNCHANGED <<clipboard, bodyChildren>>
         ELSE \E outcome \in CopyOutcomes :
                LET attached == bodyChildren + 1
                IN  /\ clipboard' = IF outcome = "copied" THEN dot ELSE clipboard
                    /\ console' =
                         IF outcome = "throws"
                         THEN Append(logs, Error("Failed to copy DOT graph:"))
                         ELSE Append(logs, Log("DOT graph copied to clipboard!"))
                    /\ bodyChildren' = attached - 1
                    /\ UNCHANGED pendingWrites

GenerateFrame ==
  /\ outbox' = <<>>
  /\ inbound' = NoMessage
  /\ fired' = {}
  /\ UNCHANGED <<props, navigatorClipboard, phase, inst, mounts,
                 knowledgeQueryInput, knowledgeLayerRoutes,
                 knowledgeQueryResponse, handlers, lastRegistered, received>>

\* (mutation of GenerateRouteDotGraph: absent routes are taken for no routes)
GenerateWithoutGuard(s) ==
  /\ phase[s] = "active"
  /\ Export(s, IF knowledgeLayerRoutes[s] = Null THEN EmptyRouteSet
               ELSE knowledgeLayerRoutes[s])
  /\ GenerateFrame

GenerateRouteDotGraph(s) ==
  /\ phase[s] = "active"
  /\ IF knowledgeLayerRoutes[s] = Null
     THEN /\ console' = << Error("Knowledge Layer Routes are not available") >>
          /\ produced' = NoGraph
          /\ UNCHANGED <<clipboard, pendingWrites, bodyChildren>>
     ELSE Export(s, knowledgeLayerRoutes[s])
  /\ GenerateFrame

\* (mutation of GenerateButtonDisabled: the button carries no disabled
\* attribute)
GenerateButtonNeverDisabled(s) == FALSE

\* disabled={!knowledgeLayerRoutes} of the "Generate Route DOT graph" button
GenerateButtonDisabled(s) == knowledgeLayerRoutes[s] = Null

\* a click on the button: the browser runs onClick only for an enabled button
ClickGenerate(s) ==
  /\ ~GenerateButtonDisabled(s)
  /\ GenerateRouteDotGraph(s)

\* the writeText promise settles: .then or .catch
SettleWrite(i, fulfilled) ==
  /\ i \in 1..Len(pendingWrites)
  /\ pendingWrites' = SubSeq(pendingWrites, 1, i - 1)
                        \o SubSeq(pendingWrites, i + 1, Len(pendingWrites))
  /\ IF fulfilled
     THEN /\ clipboard' = pendingWrites[i]
          /\ console' = << Log("DOT graph copied to clipboard!") >>
     ELSE /\ UNCHANGED clipboard
          /\ console' = << Error("Failed to copy DOT graph:") >>
  /\ Quiet
  /\ UNCHANGED <<props, navigatorClipboard, phase, inst, mounts,
                 knowledgeQueryInput, knowledgeLayerRoutes,
                 knowledgeQueryResponse, handlers, lastRegistered,
                 received, bodyChildren>>

Next == \E s \in {1} :
  \/ Start(s)
  \/ End(s)
  \/ \E t \in Texts : SetKnowledgeQueryInput(s, t)
  \/ GetKnowledgeRoutes(s)
  \/ QueryKnowledge(s)
  \/ \E k \in Keys : \E r \in ResponsesFor(k) : Deliver(k, r)
  \/ GenerateRouteDotGraph(s)
  \/ ClickGenerate(s)
  \/ \E i \in 1..MaxWrites : \E fulfilled \in BOOLEAN : SettleWrite(i, fulfilled)

Spec == Init /\ [][Next]_vars

\* ---------------------------------------------- the graph specification
\* The graph transform on every RouteSet within the bounds: session 1 is
\* mounted with all collaborators and has just received the RouteSet.
InitGraph ==
  \E rs \in RouteSets :
    /\ props = [sendMessage |-> TRUE, registerMessageHandler |-> TRUE,
                deregisterMessageHandler |-> TRUE]
    /\ navigatorClipboard \in BOOLEAN
    /\ phase = [s \in Sessions |-> IF s = 1 THEN "active" ELSE "idle"]
    /\ inst = [s \in Sessions |-> IF s = 1 THEN 1 ELSE 0]
    /\ mounts = 1
    /\ knowledgeQueryInput = [s \in Sessions |-> <<>>]
    /\ knowledgeLayerRoutes = [s \in Sessions |-> IF s = 1 THEN rs ELSE Null]
    /\ knowledgeQueryResponse = [s \in Sessions |-> ""]
    /\ handlers = [k \in Keys |-> {1}]
    /\ outbox = <<>>
    /\ console = << Log("Received knowledge layer routes:") >>
    /\ inbound = [key |-> "get_routes"]
    /\ fired = {1}
    /\ lastRegistered = [k \in Keys |-> 1]
    /\ received = [s \in Sessions |->
                     [k \in Keys |-> IF s = 1 /\ k = "get_routes" THEN << rs >>
                                     ELSE NoResponse]]
    /\ produced = NoGraph
    /\ clipboard = NoText
    /\ pendingWrites = <<>>
    /\ bodyChildren = 0

NextGraph ==
  \/ GenerateRouteDotGraph(1)
  \/ \E i \in 1..MaxWrites : \E fulfilled \in BOOLEAN : SettleWrite(i, fulfilled)

SpecGraph == InitGraph /\ [][NextGraph]_vars

\* Two dashboards on one page, mounted and unmounted independently, given the
\* same channel adapter with sendMessage and registerMessageHandler supplied.
InitShared ==
  /\ Init
  /\ props.sendMessage
  /\ props.registerMessageHandler
  /\ navigatorClipboard

NextShared == \E s \in Sessions :
  \/ Start(s)
  \/ End(s)
  \/ GetKnowledgeRoutes(s)
  \/ \E k \in Keys : \E r \in ResponsesFor(k) : Deliver(k, r)

SpecShared == InitShared /\ [][NextShared]_vars

\* ================================================================ claims
IsBlank(t) == \A i \in 1..Len(t) : t[i] \in Whitespace

HasError(entries) == \E i \in 1..Len(entries) : entries[i].level = "error"

\* p is t without its leading and trailing whitespace
IsTrimOf(p, t) ==
  \E i \in 1..(Len(t) + 1) : \E j \in 0..Len(t) :
    /\ p = SubSeq(t, i, j)
    /\ \A h \in 1..(i - 1) : t[h] \in Whitespace
    /\ \A h \in (j + 1)..Len(t) : t[h] \in Whitespace
    /\ p # <<>> => p[1] \notin Whitespace /\ p[Len(p)] \notin Whitespace

\* C1: queryKnowledge invoked while the query text is empty or only
\* whitespace sends no message and leaves PendingQuery (text and response)
\* unchanged.
C1_BlankQuerySendsNothing ==
  [][\A s \in Sessions :
       (QueryKnowledge(s) /\ IsBlank(knowledgeQueryInput[s]))
         => /\ outbox' = <<>>
            /\ knowledgeQueryInput'[s] = knowledgeQueryInput[s]
            /\ knowledgeQueryResponse'[s] = knowledgeQueryResponse[s]]_vars

\* a whitespace-only query was submitted with the channel connected
C1_Witness ==
  /\ console = << Error("Knowledge query input is empty") >>
  /\ \E s \in Sessions :
       /\ phase[s] = "active"
       /\ knowledgeQueryInput[s] # <<>>
       /\ knowledgeQueryResponse[s] # ""

WellFormedMessage(m) ==
  \/ m = [namespace |-> "knowledge_layer", action |-> "get_routes", args |-> <<>>]
  \/ /\ m.namespace = "knowledge_layer"
     /\ m.action = "query_knowledge"
     /\ Len(m.args) = 1
     /\ m.args[1] # <<>>
     /\ m.args[1][1] \notin Whitespace
     /\ m.args[1][Len(m.args[1])] \notin Whitespace

\* C2: every message sent is (knowledge_layer, get_routes) without payload or
\* (knowledge_layer, query_knowledge) with a non-empty payload that has no
\* leading or trailing whitespace and is the trimmed query text of the
\* moment; each accepted request sends exactly one message.
C2_MessagesWellFormed ==
  /\ [](\A i \in 1..Len(outbox) : WellFormedMessage(outbox[i]))
  /\ [][\A s \in Sessions :
          /\ (GetKnowledgeRoutes(s) /\ props.sendMessage)
               => outbox' = << [namespace |-> "knowledge_layer",
                                action |-> "get_routes", args |-> <<>>] >>
          /\ (QueryKnowledge(s) /\ props.sendMessage
                /\ ~IsBlank(knowledgeQueryInput[s]))
               => /\ Len(outbox') = 1
                  /\ outbox'[1].action = "query_knowledge"
                  /\ Len(outbox'[1].args) = 1
                  /\ IsTrimOf(outbox'[1].args[1], knowledgeQueryInput[s])]_vars

\* a query was sent whose payload differs from the text typed: trimming acted
C2_Witness ==
  /\ Len(outbox) = 1
  /\ outbox[1].action = "query_knowledge"
  /\ \E s \in Sessions :
       /\ phase[s] = "active"
       /\ outbox[1].args[1] # knowledgeQueryInput[s]
       /\ IsTrimOf(outbox[1].args[1], knowledgeQueryInput[s])

\* the session in slot s has ended and its teardown deregistered its keys
Deregistered(s) ==
  /\ phase[s] = "ended"
  /\ props.registerMessageHandler
  /\ props.deregisterMessageHandler

\* C3: once a session has deregistered a key at teardown, an inbound message
\* later delivered for that key is dropped: the session's callback does not
\* run, its RouteSet and PendingQuery are unchanged, and no error is reported.
C3_DroppedAfterTeardown ==
  [][\A s \in Sessions :
       (inbound' # NoMessage /\ Deregistered(s))
         => /\ inst[s] \notin fired'
            /\ (lastRegistered[inbound'.key] = inst[s]
                  => fired' = {} /\ console' = <<>>)
            /\ knowledgeLayerRoutes'[s] = knowledgeLayerRoutes[s]
            /\ knowledgeQueryResponse'[s] = knowledgeQueryResponse[s]
            /\ knowledgeQueryInput'[s] = knowledgeQueryInput[s]
            /\ ~HasError(console')]_vars

\* a response arrived for a session that had received routes and a query
\* response and then ended with its keys deregistered
C3_Witness ==
  /\ inbound # NoMessage
  /\ fired = {}
  /\ \E s \in Sessions :
       /\ Deregistered(s)
       /\ lastRegistered[inbound.key] = inst[s]
       /\ knowledgeLayerRoutes[s] # Null
       /\ knowledgeQueryResponse[s] # ""

\* C4 as claimed: after a session that registered its callbacks has ended,
\* neither key has that session's callback registered, whichever
\* collaborators were supplied.
C4_NoStaleCallback ==
  \A s \in Sessions : \A k \in Keys :
    (phase[s] = "ended" /\ props.registerMessageHandler) => inst[s] \notin handlers[k]

\* C4 amended: after a session that registered its callbacks has ended,
\* neither key has that session's callback registered, provided the
\* deregistration capability was supplied.
C4_NoStaleCallbackWhenDeregistering ==
  \A s \in Sessions : \A k \in Keys :
    (phase[s] = "ended" /\ props.registerMessageHandler
       /\ props.deregisterMessageHandler) => inst[s] \notin handlers[k]

\* a session that registered both callbacks has just been torn down
C4_Witness ==
  \E s \in Sessions :
    /\ Deregistered(s)
    /\ \A k \in Keys : lastRegistered[k] = inst[s] /\ handlers[k] = {}
    /\ inbound = NoMessage
    /\ console = <<>>

\* C5: after any registrations and deregistrations (a remount included) at
\* most one callback is registered per key, and an inbound response is
\* delivered to at most one callback, the one registered last for its key.
C5_OnlyLatestCallbackFires ==
  /\ \A k \in Keys : Cardinality(handlers[k]) <= 1
  /\ \A k \in Keys : handlers[k] \subseteq {lastRegistered[k]}
  /\ inbound # NoMessage =>
       /\ Cardinality(fired) <= 1
       /\ fired \subseteq {lastRegistered[inbound.key]}

\* after a teardown that could not deregister and a remount, a response
\* reached the second instance's callback only
C5_Witness ==
  /\ ~props.deregisterMessageHandler
  /\ mounts = 2
  /\ inbound # NoMessage
  /\ fired = {2}

\* C6: generateRouteDotGraph invoked while the RouteSet is absent reports the
\* DataUnavailable diagnostic, produces no Graph and writes nothing to the
\* clipboard.
C6_UnavailableWithoutRoutes ==
  [][\A s \in Sessions :
       (GenerateRouteDotGraph(s) /\ knowledgeLayerRoutes[s] = Null)
         => /\ console' = << Error("Knowledge Layer Routes are not available") >>
            /\ produced' = NoGraph
            /\ clipboard' = clipboard
            /\ pendingWrites' = pendingWrites
            /\ bodyChildren' = bodyChildren]_vars

\* the graph was requested before any get_routes response
C6_Witness ==
  /\ console = << Error("Knowledge Layer Routes are not available") >>
  /\ produced = NoGraph
  /\ \E s \in Sessions :
       phase[s] = "active" /\ received[s]["get_routes"] = NoResponse

\* the routes the last step built its graph from
ProducedFrom == knowledgeLayerRoutes[produced.session].explainer_routes

\* C7: the Graph's nodes are the top-level route patterns in input order:
\* as many as there are routes, duplicates kept, related targets not added.
C7_NodesAreRoutePatterns ==
  produced # NoGraph =>
    produced.nodes = [i \in 1..Len(ProducedFrom) |-> ProducedFrom[i].pattern]

\* a graph of two routes with the same pattern and an edge to a pattern that
\* is no route
C7_Witness ==
  /\ produced # NoGraph
  /\ produced.nodes = << "/a", "/a" >>
  /\ \E i \in 1..Len(produced.edges) : produced.edges[i].target = "/c"

RECURSIVE RelatedBefore(_, _)
RelatedBefore(routes, i) ==
  IF i <= 1 THEN 0 ELSE RelatedBefore(routes, i - 1) + Len(routes[i - 1].related)

\* C8: the Graph has one edge per related entry, ordered by route and then by
\* related entry; each has the owning route's pattern as source, the related
\* pattern as target and the related relationship as label.
C8_EdgesInRouteThenRelatedOrder ==
  produced # NoGraph =>
    /\ Len(produced.edges) = RelatedBefore(ProducedFrom, Len(ProducedFrom) + 1)
    /\ \A i \in 1..Len(ProducedFrom) : \A j \in 1..Len(ProducedFrom[i].related) :
         produced.edges[RelatedBefore(ProducedFrom, i) + j] =
           [source |-> ProducedFrom[i].pattern,
            target |-> ProducedFrom[i].related[j].pattern,
            label  |-> ProducedFrom[i].related[j].relationship]

\* a graph of two routes, the first with two different related entries, the
\* second with one
C8_Witness ==
  /\ produced # NoGraph
  /\ Len(ProducedFrom) = 2
  /\ Len(ProducedFrom[1].related) = 2
  /\ ProducedFrom[1].related[1] # ProducedFrom[1].related[2]
  /\ Len(ProducedFrom[2].related) = 1
  /\ ProducedFrom[1].pattern # ProducedFrom[2].pattern
  /\ Len(produced.edges) = 3

RECURSIVE Joined(_, _)
Joined(lines, n) == IF n = 0 THEN "" ELSE Joined(lines, n - 1) \o lines[n]

\* C9: the serialized text is the header line, one quoted line per node in
\* node order, one 'source -> target [label=...]' line per edge in edge
\* order, and the closing line; for no routes it is the header and the
\* closing line alone.
C9_SerializedLines ==
  produced # NoGraph =>
    /\ produced.dot =
         "digraph KnowledgeRoutes {\n"
           \o Joined([i \in 1..Len(produced.nodes) |->
                        "  \"" \o produced.nodes[i] \o "\";\n"],
                     Len(produced.nodes))
           \o Joined([i \in 1..Len(produced.edges) |->
                        "  \"" \o produced.edges[i].source \o "\" -> \""
                          \o produced.edges[i].target \o "\" [label=\""
                          \o produced.edges[i].label \o "\"];\n"],
                     Len(produced.edges))
           \o "}\n"
    /\ ProducedFrom = <<>> => produced.dot = "digraph KnowledgeRoutes {\n}\n"
    /\ ProducedFrom = ExampleRouteSet.explainer_routes =>
         produced.dot =
           "digraph KnowledgeRoutes {\n  \"/a\";\n  \"/a\" -> \"/b\" [label=\"depends_on\"];\n}\n"

\* the text of a graph with two nodes and an edge on the first of them
C9_Witness ==
  /\ produced # NoGraph
  /\ produced.dot =
       "digraph KnowledgeRoutes {\n  \"/b\";\n  \"/a\";\n  \"/b\" -> \"/c\" [label=\"uses\"];\n}\n"

\* C10: while a session is active, its RouteSet is the payload of the
\* get_routes response delivered to it last (absent before the first) and
\* its query response the payload of the query_knowledge response delivered
\* to it last (empty before the first).
C10_StateIsLatestResponse ==
  \A s \in Sessions :
    phase[s] = "active" =>
      /\ knowledgeLayerRoutes[s] =
           IF received[s]["get_routes"] = NoResponse THEN Null
           ELSE received[s]["get_routes"][1]
      /\ knowledgeQueryResponse[s] =
           IF received[s]["query_knowledge"] = NoResponse THEN ""
           ELSE received[s]["query_knowledge"][1]

\* the first instance exported the example routes and then received the empty
\* RouteSet, which replaced them
C10_Witness ==
  /\ mounts = 1
  /\ phase[1] = "active"
  /\ clipboard = DotOf(GraphOf(ExampleRouteSet))
  /\ inbound = [key |-> "get_routes"]
  /\ knowledgeLayerRoutes[1] = EmptyRouteSet
  /\ knowledgeQueryResponse[1] = "cqi=12"

HasUncaught(entries) ==
  \E i \in 1..Len(entries) : entries[i].level = "uncaught"

\* the last console entry of a step
LastEntry(entries) == entries[Len(entries)]

\* C12: whichever collaborator is missing, with blank text, with no RouteSet
\* and with a failing clipboard (rejected asynchronous write, throwing copy
\* command), the operation reports a diagnostic and returns: no exception
\* leaves a handler, and the session is still active afterwards.
C12_FailuresAreDiagnosed ==
  [][ /\ ~HasUncaught(console')
      /\ \A s \in Sessions :
           /\ (~props.registerMessageHandler /\ Start(s)) =>
                /\ console'[1] = Error("registerMessageHandler is not provided")
                /\ phase'[s] = "active"
           /\ (props.registerMessageHandler /\ ~props.deregisterMessageHandler
                 /\ End(s)) =>
                console' = << Error("deregisterMessageHandler is not provided") >>
           /\ (~props.sendMessage /\ GetKnowledgeRoutes(s)) =>
                /\ console' = << Error("websocket is not connected") >>
                /\ phase'[s] = "active"
           /\ (~props.sendMessage /\ QueryKnowledge(s)) =>
                /\ console' = << Error("WebSocket is not connected") >>
                /\ phase'[s] = "active"
           /\ (props.sendMessage /\ IsBlank(knowledgeQueryInput[s])
                 /\ QueryKnowledge(s)) =>
                /\ console' = << Error("Knowledge query input is empty") >>
                /\ phase'[s] = "active"
           /\ (phase[s] = "active" /\ knowledgeLayerRoutes[s] = Null
                 /\ GenerateRouteDotGraph(s)) =>
                /\ console' = << Error("Knowledge Layer Routes are not available") >>
                /\ phase'[s] = "active"
           /\ (~navigatorClipboard /\ phase[s] = "active"
                 /\ knowledgeLayerRoutes[s] # Null /\ produced' # NoGraph
                 /\ GenerateRouteDotGraph(s)) =>
                /\ LastEntry(console') \in
                     { Log("DOT graph copied to clipboard!"),
                       Error("Failed to copy DOT graph:") }
                /\ phase'[s] = "active"
      /\ \A i \in 1..MaxWrites :
           (Len(pendingWrites') < Len(pendingWrites) /\ SettleWrite(i, FALSE)) =>
             /\ console' = << Error("Failed to copy DOT graph:") >>
             /\ phase' = phase
    ]_vars

\* the copy command of the fallback threw, and the session goes on
C12_Witness ==
  /\ ~navigatorClipboard
  /\ produced # NoGraph
  /\ Len(console) = 3
  /\ console[3] = Error("Failed to copy DOT graph:")
  /\ phase[produced.session] = "active"
  /\ ~props.deregisterMessageHandler

DataUnavailable == << Error("Knowledge Layer Routes are not available") >>

\* C13: the button is disabled exactly in the states in which
\* generateRouteDotGraph reports that the routes are not available, and a
\* click on the enabled button always produces a graph.
C13_ControlMatchesGuard ==
  [][ \A s \in Sessions :
        /\ ((produced' # NoGraph \/ console' = DataUnavailable)
              /\ GenerateRouteDotGraph(s)) =>
             (GenerateButtonDisabled(s) <=> console' = DataUnavailable)
        /\ ((produced' # NoGraph \/ console' = DataUnavailable)
              /\ ClickGenerate(s)) =>
             /\ produced' # NoGraph
             /\ produced'.session = s
             /\ console' # DataUnavailable
    ]_vars

\* the routes arrived, the button is enabled and a click exported the graph
C13_Witness ==
  /\ produced # NoGraph
  /\ ~GenerateButtonDisabled(produced.session)
  /\ navigatorClipboard
  /\ pendingWrites = << produced.dot >>
  /\ ~HasError(console)

\* C14: within one session the RouteSet changes only in a step that delivers
\* a get_routes response to the session's registered callback, and the query
\* response only in a step that delivers a query_knowledge response to it;
\* requests, edits of the text, responses under the other key and exports
\* with any clipboard outcome leave both as they were.
C14_StateChangesOnlyOnDelivery ==
  [][ \A s \in Sessions :
        inst'[s] = inst[s] =>
          /\ knowledgeLayerRoutes'[s] # knowledgeLayerRoutes[s] =>
               /\ inbound' = [key |-> "get_routes"]
               /\ phase[s] = "active"
               /\ inst[s] \in fired'
          /\ knowledgeQueryResponse'[s] # knowledgeQueryResponse[s] =>
               /\ inbound' = [key |-> "query_knowledge"]
               /\ phase[s] = "active"
               /\ inst[s] \in fired'
    ]_vars

\* with routes and a query response in place and a text typed, an export
\* through the fallback copied the graph and left the state alone
C14_Witness ==
  /\ produced # NoGraph
  /\ ~navigatorClipboard
  /\ clipboard = produced.dot
  /\ knowledgeLayerRoutes[produced.session] = ExampleRouteSet
  /\ knowledgeQueryResponse[produced.session] # ""
  /\ knowledgeQueryInput[produced.session] # <<>>

\* C15: no textarea of the fallback copy is left in the document after
\* generateRouteDotGraph has returned, whether the copy command copied,
\* reported failure or threw, and after any number of exports.
C15_NoContainerLeftBehind == bodyChildren = 0

\* the fallback was used, its copy command threw and nothing was copied
C15_Witness ==
  /\ ~navigatorClipboard
  /\ produced # NoGraph
  /\ LastEntry(console) = Error("Failed to copy DOT graph:")
  /\ clipboard = NoText
  /\ bodyChildren = 0

Copied == Log("DOT graph copied to clipboard!")

ReportsSuccess(entries) == \E i \in 1..Len(entries) : entries[i] = Copied

\* C16: an export whose text does not end up on the clipboard (the
\* asynchronous write was rejected, or the copy command of the fallback threw
\* or returned an unsuccessful result) reports "Failed to copy DOT graph:"
\* and does not report success.
C16_UncopiedExportReportsFailure ==
  [][ /\ \A s \in Sessions :
           (~navigatorClipboard /\ produced' # NoGraph
              /\ clipboard' # produced'.dot /\ GenerateRouteDotGraph(s)) =>
             /\ LastEntry(console') = Error("Failed to copy DOT graph:")
             /\ ~ReportsSuccess(console')
      /\ \A i \in 1..MaxWrites :
           (Len(pendingWrites') < Len(pendingWrites) /\ SettleWrite(i, FALSE)) =>
             /\ LastEntry(console') = Error("Failed to copy DOT graph:")
             /\ ~ReportsSuccess(console')
    ]_vars

\* C17 as claimed: of two sessions sharing the adapter at most one observes
\* a delivered response, and the end of one session leaves registered the
\* callbacks that the other, still active session registered later.
C17_LaterCallbacksSurvive ==
  [][ /\ Cardinality(fired') <= 1
      /\ \A s, t \in Sessions :
           (s # t /\ phase[t] = "active" /\ inst[t] > inst[s] /\ End(s)) =>
             \A k \in Keys : inst[t] \in handlers[k] => inst[t] \in handlers'[k]
    ]_vars

\* C17 amended: at most one session observes a delivered response; the end
\* of a session, with the deregistration capability supplied, deregisters
\* both keys whichever session registered them last, so that the callbacks
\* of the other, still active session are removed as well and it observes
\* no later response.
C17_EndDeregistersWhoeverRegistered ==
  [][ /\ Cardinality(fired') <= 1
      /\ Cardinality({ s \in Sessions :
                         \/ knowledgeLayerRoutes'[s] # knowledgeLayerRoutes[s]
                         \/ knowledgeQueryResponse'[s] # knowledgeQueryResponse[s] }) <= 1
      /\ \A s \in Sessions :
           (props.deregisterMessageHandler /\ End(s)) =>
             \A k \in Keys : handlers'[k] = {}
    ]_vars

\* session 2 registered after session 1; session 1 has ended and a routes
\* response delivered since then reached nobody, session 2 included
C17_Witness ==
  /\ props.deregisterMessageHandler
  /\ phase[1] = "ended"
  /\ phase[2] = "active"
  /\ inst[2] > inst[1]
  /\ \A k \in Keys : handlers[k] = {}
  /\ inbound = [key |-> "get_routes"]
  /\ fired = {}
  /\ knowledgeLayerRoutes[2] = Null

\* C18: in every state of a single session the two keys are registered
\* together or not at all; with the registration and the deregistration
\* capability supplied, both keys hold the session's callback while it is
\* active, and neither holds a callback before its start and after its end.
C18_RegistrationAllOrNothing ==
  /\ handlers["get_routes"] = handlers["query_knowledge"]
  /\ (props.registerMessageHandler /\ props.deregisterMessageHandler) =>
       /\ \A s \in Sessions :
            phase[s] = "active" => \A k \in Keys : handlers[k] = {inst[s]}
       /\ (\A s \in Sessions : phase[s] # "active") =>
            \A k \in Keys : handlers[k] = {}

\* the second session of the page is running and holds both keys
C18_Witness ==
  /\ props.registerMessageHandler
  /\ props.deregisterMessageHandler
  /\ \E s \in Sessions :
       /\ phase[s] = "active"
       /\ inst[s] = 2
       /\ \A k \in Keys : handlers[k] = {2}

\* C19: once a get_routes response has reached a session, its RouteSet is
\* present and stays present in every later step of that session, and every
\* later call of generateRouteDotGraph produces the graph of the current
\* RouteSet instead of reporting that the routes are not available.
C19_RoutesStayPresent ==
  [][ \A s \in Sessions :
        /\ received[s]["get_routes"] # NoResponse =>
             knowledgeLayerRoutes[s] # Null
        /\ (knowledgeLayerRoutes[s] # Null /\ inst'[s] = inst[s]) =>
             /\ knowledgeLayerRoutes'[s] # Null
             /\ ((produced' # NoGraph \/ console' = DataUnavailable)
                   /\ phase[s] = "active" /\ GenerateRouteDotGraph(s)) =>
                  /\ console' # DataUnavailable
                  /\ produced' # NoGraph
                  /\ produced'.nodes = GraphOf(knowledgeLayerRoutes[s]).nodes
                  /\ produced'.edges = GraphOf(knowledgeLayerRoutes[s]).edges
    ]_vars

\* a later response replaced the routes that had been exported before, and
\* the graph of the new ones was produced
C19_Witness ==
  /\ produced # NoGraph
  /\ phase[produced.session] = "active"
  /\ knowledgeLayerRoutes[produced.session] = EmptyRouteSet
  /\ received[produced.session]["get_routes"] = << EmptyRouteSet >>
  /\ produced.nodes = <<>>
  /\ clipboard = DotOf(GraphOf(ExampleRouteSet))

====
